---- MODULE Spec2Model ----
(***************************************************************************)
(* mp4len (src/mp4len.c): prints the duration of an MP4 file in seconds.   *)
(*                                                                         *)
(* The program is one sequential pipeline over one file:                   *)
(*   main: size check -> has_mp4_magic -> get_mp4_len                      *)
(*         (move_to_header, then the field decode) -> printf.              *)
(* The state is the file, the stream cursor, the position of main in the   *)
(* pipeline, and what each stage left behind.                              *)
(*                                                                         *)
(* Bytes are the integers 0..255.  A 64-bit unsigned value (unsigned long  *)
(* on LP64, unsigned long long) is a tuple of 8 bytes, most significant    *)
(* first, with arithmetic modulo 2^64 done digit by digit, because the     *)
(* values do not fit the model checker's integers.                         *)
(***************************************************************************)
EXTENDS Integers, Sequences, FiniteSets

VARIABLES
    file,          \* the bytes of argv[1]; file[i] is the byte at offset i-1
    pc,            \* where main is: "size", "magic", "locate", "decode", "print", "exit"
    pos,           \* the cursor of fptr
    exit_code,     \* the process's exit status, -1 while it runs
    stdout,        \* what printf wrote (a sequence of printed values)
    ran,           \* the stages that have run so far
    loc,           \* what move_to_header did: its return value, cursor, reads
    version,       \* get_mp4_len's version (fgetc's int), -2 before it is read
    unit_per_sec,  \* get_mp4_len's unit_per_sec (64 bits)
    len_unit       \* get_mp4_len's len_unit (64 bits)

vars == <<file, pc, pos, exit_code, stdout, ran, loc, version, unit_per_sec, len_unit>>

-----------------------------------------------------------------------------
(* Program constants and the bounds of the model.                          *)

\* #define MIN_SIZE 51
MIN_SIZE == 51

\* #define BLOCK_SIZE 16384, scaled down: the smallest values for which a file
\* that passes the size check can still fit a single block (n_blocks = 1).
BLOCK_SIZE == 52

\* The largest file is two bytes longer than MaxBlocks blocks.
MaxBlocks == 3
MaxSize == MaxBlocks * BLOCK_SIZE + 2

\* The file sizes of the locator's inputs: at, just above, just below and
\* halfway between the multiples of BLOCK_SIZE (1 to MaxBlocks + 1 blocks).
Sizes ==
    {n \in MIN_SIZE..MaxSize :
        n % BLOCK_SIZE \in {0, 1, 2, BLOCK_SIZE \div 2, BLOCK_SIZE - 1}}

\* The size of the files with two tags: the smallest file of four blocks.
TwoTagSize == 3 * BLOCK_SIZE + 1

\* Offset of the mvhd tag in the decoder inputs (the spec's concrete scenario).
HdrOffset == 40

\* char hdr[4] = {'m', 'v', 'h', 'd'}
hdr == <<109, 118, 104, 100>>

Min(a, b) == IF a < b THEN a ELSE b

-----------------------------------------------------------------------------
(* 64-bit unsigned arithmetic on 8-byte tuples (most significant first).   *)

Zero4 == <<0, 0, 0, 0>>
Ones4 == <<255, 255, 255, 255>>
Zero8 == Zero4 \o Zero4

RECURSIVE AddCarry(_, _, _)
AddCarry(a, b, i) ==
    IF i = 8 THEN 0 ELSE (a[i + 1] + b[i + 1] + AddCarry(a, b, i + 1)) \div 256

\* a + b modulo 2^64
U64Add(a, b) == [i \in 1..8 |-> (a[i] + b[i] + AddCarry(a, b, i)) % 256]

\* -a modulo 2^64
U64Neg(a) == U64Add([i \in 1..8 |-> 255 - a[i]], <<0, 0, 0, 0, 0, 0, 0, 1>>)

\* a - b modulo 2^64
U64Sub(a, b) == U64Add(a, U64Neg(b))

RECURSIVE MulCarry(_, _, _)
MulCarry(a, k, i) ==
    IF i = 8 THEN 0 ELSE (a[i + 1] * k + MulCarry(a, k, i + 1)) \div 256

\* a * k modulo 2^64, for a small k
U64Mul(a, k) == [i \in 1..8 |-> (a[i] * k + MulCarry(a, k, i)) % 256]

\* a long or int n >= 0 converted to unsigned long
U64FromNat(n) ==
    <<0, 0, 0, 0, (n \div 16777216) % 256, (n \div 65536) % 256, (n \div 256) % 256, n % 256>>

\* the value of a when it is below 2^31
U64Small(a) == a[5] * 16777216 + a[6] * 65536 + a[7] * 256 + a[8]

\* unsigned long converted to long (two's complement, as the build does)
U64ToLong(a) == IF a[1] >= 128 THEN 0 - U64Small(U64Neg(a)) ELSE U64Small(a)

-----------------------------------------------------------------------------
(* The stream: fread, fgetc and fseek on a file that never fails.          *)

\* fread(buf, 1, n, fptr) at cursor p: the bytes it returns
Fread(f, p, n) == SubSeq(f, p + 1, Min(p + n, Len(f)))

\* fgetc(fptr) at cursor p: the byte, or EOF (-1)
Fgetc(f, p) == IF p < Len(f) THEN f[p + 1] ELSE 0 - 1

\* the cursor after fgetc at p
FgetcPos(f, p) == IF p < Len(f) THEN p + 1 ELSE p

\* fseek to a target offset fails exactly when the offset is negative
FseekFails(target) == target < 0

-----------------------------------------------------------------------------
(* has_mp4_magic                                                           *)

\* MagicUll as a big-endian host would load it (c[0] most significant)
MagicUll_BigEndian(c) == c

\* union { unsigned long long ull; char c[8]; }: the value of magic.ull once
\* magic.c holds the 8 bytes read, on the little-endian host the code is
\* written for: c[0] is the least significant byte.
MagicUll(c) == [i \in 1..8 |-> c[9 - i]]

\* 0x6D6F736970797466LL and 0x3234706D70797466LL
MagicIsom == <<109, 111, 115, 105, 112, 121, 116, 102>>
MagicMp42 == <<50, 52, 112, 109, 112, 121, 116, 102>>

\* What has_mp4_magic does on file f: exit is the status it exits with (0 when
\* it returns), ret its return value, pos the cursor it leaves.
has_mp4_magic(f) ==
    IF FseekFails(4)
    THEN [exit |-> 10, ret |-> 0, pos |-> 4]
    ELSE LET c == Fread(f, 4, 8) IN
         IF Len(c) # 8
         THEN [exit |-> 11, ret |-> 0, pos |-> 4 + Len(c)]
         ELSE [exit |-> 0,
               ret  |-> IF MagicUll(c) = MagicIsom \/ MagicUll(c) = MagicMp42 THEN 1 ELSE 0,
               pos  |-> 12]

-----------------------------------------------------------------------------
(* move_to_header                                                          *)

\* number of blocks to cover file
NBlocks(fsize) == fsize \div BLOCK_SIZE + (IF fsize % BLOCK_SIZE > 0 THEN 1 ELSE 0)

\* BackIndex without the - 1: the last block would start at the end of file
BackIndex_OffByOne(n_blocks, xx) == n_blocks - (xx - 1) \div 2

\* odd iteration: ii = n_blocks - 1 - (xx - 1) / 2
BackIndex(n_blocks, xx) == n_blocks - 1 - (xx - 1) \div 2

\* odd iteration: the offset handed to fseek(.., SEEK_END).  ii - n_blocks is
\* computed in unsigned long and wraps; the product wraps again and is
\* converted to fseek's long.
BackOffset(ii, n_blocks) ==
    U64ToLong(U64Mul(U64Sub(U64FromNat(ii), U64FromNat(n_blocks)), BLOCK_SIZE))

\* FrontIndex without the halving: every other front block is skipped
FrontIndex_NotHalved(xx) == xx

\* even iteration: ii = xx / 2
FrontIndex(xx) == xx \div 2

\* even iteration: the offset handed to fseek(.., SEEK_SET)
FrontOffset(ii) == ii * BLOCK_SIZE

\* BlockStart of a scan that only goes forward, block after block
BlockStart_ForwardOnly(fsize, n_blocks, xx) == xx * BLOCK_SIZE

\* the offset in the file that iteration xx seeks to
BlockStart(fsize, n_blocks, xx) ==
    IF xx % 2 = 1
    THEN fsize + BackOffset(BackIndex(n_blocks, xx), n_blocks)
    ELSE FrontOffset(FrontIndex(xx))

\* (buf_len < BLOCK_SIZE) && (buf_len < fsize)
ShortRead(buf_len, fsize) == buf_len < BLOCK_SIZE /\ buf_len < fsize

\* MatchSeek without the + 1: the cursor is left on the tag's last byte
MatchSeek_NoPlusOne(buf_len, jj) == 0 - buf_len + jj

\* the offset handed to fseek(.., SEEK_CUR) when the block holds the match
\* whose last byte is buf[jj]
MatchSeek(buf_len, jj) == 0 - buf_len + jj + 1

\* The search of one block from index jj with chars_matching = cm: hit when
\* chars_matching reaches 4 at buf[jj], else the streak the block ends with.
RECURSIVE SearchBlock(_, _, _)
SearchBlock(buf, jj, cm) ==
    IF ~(jj < Len(buf))
    THEN [hit |-> FALSE, jj |-> jj, cm |-> cm]
    ELSE IF buf[jj + 1] = hdr[cm + 1]
         THEN IF cm + 1 = 4
              THEN [hit |-> TRUE, jj |-> jj, cm |-> 4]
              ELSE SearchBlock(buf, jj + 1, cm + 1)
         ELSE SearchBlock(buf, jj + 1, 0)

\* CheckRemaining that gives up: a match is never continued past a block
CheckRemaining_GiveUp(f, p, cm) == [cm |-> 0, pos |-> p]

\* The while loop that checks the remaining characters with fgetc, from
\* cursor p with chars_matching = cm: the streak and the cursor it ends with.
RECURSIVE CheckRemaining(_, _, _)
CheckRemaining(f, p, cm) ==
    IF cm = 0 \/ cm = 4
    THEN [cm |-> cm, pos |-> p]
    ELSE IF Fgetc(f, p) = hdr[cm + 1]
         THEN CheckRemaining(f, FgetcPos(f, p), cm + 1)
         ELSE [cm |-> 0, pos |-> FgetcPos(f, p)]

\* The for loop over the blocks from iteration xx, with the cursor at p.
\* starts and lens record, per block read so far, the offset sought and the
\* number of bytes fread returned.  The result: ret is the return value (-1
\* when the function exits instead), exit the exit status (0 when it
\* returns), pos the cursor, path how the match was completed.
RECURSIVE BlockLoop(_, _, _, _, _)
BlockLoop(f, xx, p, starts, lens) ==
    LET fsize    == Len(f)
        n_blocks == NBlocks(fsize)
    IN
    IF ~(xx < n_blocks)
    THEN [ret |-> 1, exit |-> 0, pos |-> p, starts |-> starts, lens |-> lens,
          path |-> "none", seek |-> 0]
    ELSE
    LET start == BlockStart(fsize, n_blocks, xx) IN
    IF FseekFails(start)
    THEN [ret |-> 0 - 1, exit |-> IF xx % 2 = 1 THEN 21 ELSE 22, pos |-> p,
          starts |-> Append(starts, start), lens |-> lens, path |-> "none", seek |-> 0]
    ELSE
    LET buf     == Fread(f, start, BLOCK_SIZE)
        buf_len == Len(buf)
        after   == start + buf_len
        starts2 == Append(starts, start)
        lens2   == Append(lens, buf_len)
    IN
    IF ShortRead(buf_len, fsize)
    THEN [ret |-> 0 - 1, exit |-> 23, pos |-> after, starts |-> starts2, lens |-> lens2,
          path |-> "none", seek |-> 0]
    ELSE
    LET s == SearchBlock(buf, 0, 0) IN
    IF s.hit
    THEN LET target == after + MatchSeek(buf_len, s.jj) IN
         IF FseekFails(target)
         THEN [ret |-> 0 - 1, exit |-> 24, pos |-> after, starts |-> starts2,
               lens |-> lens2, path |-> "none", seek |-> target]
         ELSE [ret |-> 0, exit |-> 0, pos |-> target, starts |-> starts2,
               lens |-> lens2, path |-> "block", seek |-> target]
    ELSE
    LET c == IF s.cm > 0 THEN CheckRemaining(f, after, s.cm) ELSE [cm |-> s.cm, pos |-> after] IN
    IF c.cm = 4
    THEN [ret |-> 0, exit |-> 0, pos |-> c.pos, starts |-> starts2, lens |-> lens2,
          path |-> "cont", seek |-> 0]
    ELSE BlockLoop(f, xx + 1, c.pos, starts2, lens2)

\* move_to_header(fptr, fsize) with the cursor at p
move_to_header(f, p) == BlockLoop(f, 0, p, <<>>, <<>>)

-----------------------------------------------------------------------------
(* get_mp4_len, after move_to_header has returned 0                        *)

\* buf[0] << 24 with buf[0] >= 0x80 overflows int: undefined behaviour.  The
\* outcomes a build produces: the wrapped (negative) int, which the
\* conversion to a 64-bit unsigned sign-extends ("sext"), or, when the
\* compiler takes the sum to be non-negative, a zero extension ("zext").
ShiftOutcomes(b) == IF Len(b) = 4 /\ b[1] >= 128 THEN {"sext", "zext"} ELSE {"exact"}

\* b[3] + (b[2]<<8) + (b[1]<<16) + (b[0]<<24), an int, converted to a 64-bit
\* unsigned value (b is the tuple of the 4 bytes, b[0] first)
IntToU64(b, outcome) == (IF outcome = "sext" THEN Ones4 ELSE Zero4) \o b

\* ((unsigned long long)buf[3]<<32) + ... + ((unsigned long long)buf[0]<<56)
\* (b is the tuple buf[0..3])
HighWord(b) == b \o Zero4

\* len_unit from the 8 bytes of buf
LenUnit(buf, outcome) == U64Add(IntToU64(SubSeq(buf, 5, 8), outcome), HighWord(SubSeq(buf, 1, 4)))

\* the bytes to skip after the version byte
SkipBytes(ver) == IF ver = 1 THEN 19 ELSE 11

\* the number of bytes of the time length
LenBytes(ver) == IF ver = 1 THEN 8 ELSE 4

\* with the cursor at p just after the tag: the 4 bytes read into buf for the
\* units per second, and the 4 bytes that end up in buf[4..7] for the time
\* length (fewer when the file ends before them)
TsBytes(f, p) == Fread(f, FgetcPos(f, p) + SkipBytes(Fgetc(f, p)), 4)
LowBytes(f, p) ==
    Fread(f, FgetcPos(f, p) + SkipBytes(Fgetc(f, p)) + LenBytes(Fgetc(f, p)), 4)

\* The decode from cursor p; o1 and o2 are the outcomes of the two int
\* expressions.  exit is the status it exits with (0 when it returns).
get_mp4_len(f, p, o1, o2) ==
    LET ver == Fgetc(f, p)
        p1  == FgetcPos(f, p)
        p2  == p1 + SkipBytes(ver)
        ts  == Fread(f, p2, 4)
        p3  == p2 + Len(ts)
        db  == Fread(f, p3, LenBytes(ver))
        p4  == p3 + Len(db)
        buf == IF ver = 1 THEN db ELSE Zero4 \o db
    IN
    IF FseekFails(p2)
    THEN [exit |-> IF ver = 1 THEN 31 ELSE 32, version |-> ver, pos |-> p1,
          unit_per_sec |-> Zero8, len_unit |-> Zero8]
    ELSE IF Len(ts) # 4
    THEN [exit |-> 33, version |-> ver, pos |-> p3,
          unit_per_sec |-> Zero8, len_unit |-> Zero8]
    ELSE IF Len(db) # LenBytes(ver)
    THEN [exit |-> 34, version |-> ver, pos |-> p4,
          unit_per_sec |-> IntToU64(ts, o1), len_unit |-> Zero8]
    ELSE [exit |-> 0, version |-> ver, pos |-> p4,
          unit_per_sec |-> IntToU64(ts, o1), len_unit |-> LenUnit(buf, o2)]

\* len_sec = (double)len_unit / (float)unit_per_sec as printf("%f") shows it:
\* a division by zero gives an infinity, 0/0 a NaN; both are printed.
LenSec(lu, ups) ==
    [text |-> IF ups # Zero8 THEN "number" ELSE IF lu # Zero8 THEN "inf" ELSE "nan",
     num  |-> lu,
     den  |-> ups]

-----------------------------------------------------------------------------
(* The input files.                                                        *)

\* "ftypisom" and "ftypmp42", in file order
SigIsom == <<102, 116, 121, 112, 105, 115, 111, 109>>
SigMp42 == <<102, 116, 121, 112, 109, 112, 52, 50>>

\* the signatures tried: the two accepted ones, the accepted constants in the
\* byte order of the integer literals, two near misses and plain filler
Sigs ==
    {SigIsom, SigMp42, MagicIsom, MagicMp42,
     <<102, 116, 121, 112, 105, 115, 111, 110>>,
     <<102, 116, 121, 112, 109, 112, 52, 49>>,
     <<120, 120, 120, 120, 120, 120, 120, 120>>}

\* a file of n bytes of filler ('x') with sig at offsets 4..11
Base(n, sig) == [i \in 1..n |-> IF i \in 5..12 THEN sig[i - 4] ELSE 120]

\* base with snip written at offset off (cut at the end of the file)
Place(base, off, snip) ==
    [i \in 1..Len(base) |-> IF i > off /\ i <= off + Len(snip) THEN snip[i - off] ELSE base[i]]

\* what is written into the locator's files: the tag, the tag after a part of
\* itself, and a part of the tag alone
Snippets ==
    {hdr,
     <<109>> \o hdr,
     <<109, 118>> \o hdr,
     <<109, 118, 104>> \o hdr,
     <<109, 118, 104>>}

\* where a snippet of length k fits in a file of n bytes, clear of the signature
Offsets(n, k) == {a \in 0..(n - k) : a + k <= 4 \/ a >= 12}

\* files of every size, with every signature, with and without a tag
SnifferFile(f) ==
    \E n \in 0..MaxSize, sig \in Sigs, snip \in {<<>>, hdr} :
        f = Place(Base(n, sig), 16, snip)

\* valid files of the sizes above with one snippet at every offset
LocatorFile(f) ==
    \E n \in Sizes, s \in Snippets :
        \E a \in Offsets(n, Len(s)) : f = Place(Base(n, SigIsom), a, s)

\* valid files of four blocks with two tags at every pair of offsets, the
\* second one plain or after an 'm'
TwoTagFile(f) ==
    \E a \in 12..(TwoTagSize - 8), s \in {hdr, <<109>> \o hdr} :
        \E b \in (a + 4)..(TwoTagSize - Len(s)) :
            f = Place(Place(Base(TwoTagSize, SigMp42), a, hdr), b, s)

\* the byte values of the timescale and duration fields
TsVals == {0, 1, 128, 255}
DurVals == {0, 1, 128}

\* timescale = 1000, duration = 5000 (the spec's concrete scenario), and a
\* 64-bit duration of 0x1_0000_0000
Ts1000 == <<0, 0, 3, 232>>
Dur5000 == <<0, 0, 19, 136>>
Dur2to32 == <<0, 0, 0, 1, 0, 0, 0, 0>>

\* a valid file with the tag at HdrOffset followed by a header of version ver
HeaderFile(ver, ts, dur) ==
    Place(Base(HdrOffset + 36, SigIsom), HdrOffset,
          hdr \o <<ver>> \o [i \in 1..SkipBytes(ver) |-> 0] \o ts \o dur)

\* headers of versions 0, 1 and 2 with every timescale and every duration,
\* and the spec's concrete scenario
DecoderFile(f) ==
    \/ \E ver \in {0, 1, 2}, ts \in [1..4 -> TsVals] :
           f = HeaderFile(ver, ts, IF ver = 1 THEN Dur2to32 ELSE Dur5000)
    \/ \E ver \in {0, 2}, dur \in [1..4 -> DurVals] : f = HeaderFile(ver, Ts1000, dur)
    \/ \E dur \in [1..8 -> DurVals] : f = HeaderFile(1, Ts1000, dur)
    \/ f = HeaderFile(0, Ts1000, Dur5000)

-----------------------------------------------------------------------------
(* The program.                                                            *)

\* loc before move_to_header has run
NoLoc ==
    [ret |-> 0 - 2, exit |-> 0, pos |-> 0, starts |-> <<>>, lens |-> <<>>,
     path |-> "none", seek |-> 0]

Init ==
    /\ \/ SnifferFile(file)
       \/ LocatorFile(file)
       \/ TwoTagFile(file)
       \/ DecoderFile(file)
    /\ pc = "size"
    /\ pos = 0
    /\ exit_code = 0 - 1
    /\ stdout = <<>>
    /\ ran = {}
    /\ loc = NoLoc
    /\ version = 0 - 2
    /\ unit_per_sec = Zero8
    /\ len_unit = Zero8

\* fsize < MIN_SIZE
TooSmall(fsize) == fsize < MIN_SIZE

\* main: get the file size and check it
main_size ==
    /\ pc = "size"
    /\ pos' = Len(file)
    /\ ran' = ran \cup {"size"}
    /\ IF TooSmall(Len(file))
       THEN pc' = "exit" /\ exit_code' = 3
       ELSE pc' = "magic" /\ exit_code' = exit_code
    /\ UNCHANGED <<file, stdout, loc, version, unit_per_sec, len_unit>>

\* main: check for the magic number matching an MP4 file
main_magic ==
    /\ pc = "magic"
    /\ \E r \in {has_mp4_magic(file)} :
       /\ pos' = r.pos
       /\ IF r.exit # 0
          THEN pc' = "exit" /\ exit_code' = r.exit
          ELSE IF r.ret = 0
               THEN pc' = "exit" /\ exit_code' = 4
               ELSE pc' = "locate" /\ exit_code' = exit_code
    /\ ran' = ran \cup {"magic"}
    /\ UNCHANGED <<file, stdout, loc, version, unit_per_sec, len_unit>>

\* get_mp4_len: move the file position to just after the movie header atom
get_mp4_len_locate ==
    /\ pc = "locate"
    /\ \E r \in {move_to_header(file, pos)} :
       /\ loc' = r
       /\ pos' = r.pos
       /\ IF r.exit # 0
          THEN pc' = "exit" /\ exit_code' = r.exit
          ELSE IF r.ret # 0
               THEN pc' = "exit" /\ exit_code' = 30
               ELSE pc' = "decode" /\ exit_code' = exit_code
    /\ ran' = ran \cup {"locate"}
    /\ UNCHANGED <<file, stdout, version, unit_per_sec, len_unit>>

\* get_mp4_len: read the version, the units per second and the time length
get_mp4_len_decode ==
    /\ pc = "decode"
    /\ \E o1 \in ShiftOutcomes(TsBytes(file, pos)), o2 \in ShiftOutcomes(LowBytes(file, pos)) :
          \E r \in {get_mp4_len(file, pos, o1, o2)} :
          /\ pos' = r.pos
          /\ version' = r.version
          /\ unit_per_sec' = r.unit_per_sec
          /\ len_unit' = r.len_unit
          /\ IF r.exit # 0
             THEN pc' = "exit" /\ exit_code' = r.exit
             ELSE pc' = "print" /\ exit_code' = exit_code
    /\ ran' = ran \cup {"decode"}
    /\ UNCHANGED <<file, stdout, loc>>

\* main: print the length and return 0
main_print ==
    /\ pc = "print"
    /\ stdout' = Append(stdout, LenSec(len_unit, unit_per_sec))
    /\ pc' = "exit"
    /\ exit_code' = 0
    /\ UNCHANGED <<file, pos, ran, loc, version, unit_per_sec, len_unit>>

Next ==
    \/ main_size
    \/ main_magic
    \/ get_mp4_len_locate
    \/ get_mp4_len_decode
    \/ main_print

Spec == Init /\ [][Next]_vars

-----------------------------------------------------------------------------
(* What the claims speak of, stated on the file itself.                    *)

fsize == Len(file)

\* the tag lies at offsets t..t+3 of the file
IsOcc(t) == t >= 0 /\ t + 4 <= fsize /\ SubSeq(file, t + 1, t + 4) = <<109, 118, 104, 100>>

\* the offsets of all occurrences of the tag
Occs ==
    {t \in 0..(fsize - 4) :
        file[t + 1] = 109 /\ file[t + 2] = 118 /\ file[t + 3] = 104 /\ file[t + 4] = 100}

\* the byte before offset t is not 'm', 'v' or 'h'
Clean(t) == t = 0 \/ file[t] \notin {109, 118, 104}

\* move_to_header has run / has returned
Located == loc.ret # 0 - 2
Returned == loc.ret \in {0, 1}

\* the number of block reads move_to_header made
Reads == Len(loc.lens)

\* bytes 4..11 are "ftypisom" or "ftypmp42"
AcceptedSig == fsize >= 12 /\ SubSeq(file, 5, 12) \in {SigIsom, SigMp42}

\* ceil(fsize / BLOCK_SIZE)
CeilBlocks == (fsize + BLOCK_SIZE - 1) \div BLOCK_SIZE

\* the offset the k-th block read (k = 0, 1, ...) starts at, in the
\* alternating order: front 0, last, front 1, second-to-last, ...
VisitStart(k) ==
    IF k % 2 = 0 THEN (k \div 2) * BLOCK_SIZE ELSE fsize - ((k + 1) \div 2) * BLOCK_SIZE

\* the tag at t lies wholly within the block of the k-th read
Within(t, k) == VisitStart(k) <= t /\ t + 4 <= VisitStart(k) + Min(BLOCK_SIZE, fsize)

-----------------------------------------------------------------------------
(* The locator.                                                            *)

\* C1: completeness of the locator: move_to_header returns 0 whenever the file
\* contains 'mvhd' at some offset, whatever bytes precede the tag, and
\* returns 1 only when the file contains no occurrence.
C1_Completeness == Returned => (loc.ret = 0 <=> Occs # {})

\* C2: cursor contract: whenever move_to_header returns 0, on the in-block
\* path and on the continuation path, the cursor is at an offset p with
\* 4 <= p <= fsize whose preceding four bytes are 'm','v','h','d'; a file
\* with no 'mvhd' anywhere is never reported as found and ends with exit 30.
C2_CursorContract ==
    /\ loc.ret = 0 =>
          /\ loc.path \in {"block", "cont"}
          /\ 4 <= loc.pos /\ loc.pos <= fsize
          /\ IsOcc(loc.pos - 4)
          /\ pc = "decode" => pos = loc.pos
    /\ (Located /\ Occs = {}) =>
          /\ loc.ret = 1
          /\ pc = "exit" /\ exit_code = 30 /\ stdout = <<>>

\* a match completed inside a back-scanned block, at the very end of the file
C2_Witness ==
    /\ loc.ret = 0 /\ loc.path = "block"
    /\ Reads % 2 = 0
    /\ loc.pos = fsize

\* C7: block-alignment independence: a file with exactly one occurrence of
\* the tag, the byte before it not 'm', 'v' or 'h', is found with the cursor
\* immediately after the tag, for every file size and every offset of the
\* tag, also when the tag is split across the end of a block.
C7_AlignmentIndependence ==
    (Located /\ Cardinality(Occs) = 1) =>
        \A t \in Occs : Clean(t) => loc.ret = 0 /\ loc.pos = t + 4

\* the single tag is split across the end of a back-scanned block and is
\* completed by the byte-wise continuation
C7_Witness ==
    /\ Cardinality(Occs) = 1
    /\ \A t \in Occs : Clean(t)
    /\ loc.ret = 0 /\ loc.path = "cont"
    /\ Reads % 2 = 0

\* C8: first occurrence: with two or more occurrences of the tag, the cursor
\* is left immediately after the occurrence with the lowest file offset,
\* irrespective of the blocks the occurrences lie in.
C8_FirstOccurrence ==
    (Returned /\ Cardinality(Occs) >= 2) =>
        /\ loc.ret = 0
        /\ \A t \in Occs : loc.pos <= t + 4

\* C8, amended: with two or more occurrences, the cursor is left immediately
\* after the occurrence whose match is completed first in the alternating
\* visit order, not in file order: no occurrence that is not directly
\* preceded by 'm', 'v' or 'h' lies wholly inside a block read before the one
\* that matched, or at a lower offset inside the block of that read.
C8_FirstInVisitOrder ==
    (Returned /\ Cardinality(Occs) >= 2) =>
        /\ (\E t \in Occs : Clean(t)) => loc.ret = 0
        /\ loc.ret = 0 =>
              /\ IsOcc(loc.pos - 4)
              /\ \A t \in Occs : Clean(t) =>
                    /\ \A k \in 0..(Reads - 2) : ~Within(t, k)
                    /\ Within(t, Reads - 1) => loc.pos <= t + 4

\* two occurrences, and the cursor is left after the later one, found in the
\* last block before the front block of the earlier one was read
C8_Witness ==
    /\ Cardinality(Occs) >= 2
    /\ loc.ret = 0 /\ Reads = 2
    /\ \E t \in Occs : t + 4 < loc.pos

\* the scan stopped at the read that completed the match: the matched tag
\* starts inside the block read last
MatchedByLastRead ==
    /\ Reads >= 1
    /\ VisitStart(Reads - 1) <= loc.pos - 4
    /\ loc.pos - 4 < VisitStart(Reads - 1) + BLOCK_SIZE

\* C9: the k-th block read starts at (k/2)*B for even k and at
\* fsize - ((k+1)/2)*B for odd k, at most ceil(fsize/B) reads are made, the scan
\* stops at the first read that completes a match, and in
\* a file of two or more blocks whose single tag is not directly preceded by
\* 'm', 'v' or 'h', a tag wholly within the first B bytes is found after
\* exactly 1 read and a tag wholly within the last B bytes (and not within
\* the first B) after exactly 2 reads.
C9_VisitOrder ==
    Located =>
        /\ \A k \in 1..Len(loc.starts) : loc.starts[k] = VisitStart(k - 1)
        /\ Reads <= CeilBlocks
        /\ loc.ret = 0 => MatchedByLastRead
        /\ (CeilBlocks >= 2 /\ Cardinality(Occs) = 1) =>
              \A t \in Occs : Clean(t) =>
                 /\ t + 4 <= BLOCK_SIZE => loc.ret = 0 /\ Reads = 1
                 /\ (t >= fsize - BLOCK_SIZE /\ ~(t + 4 <= BLOCK_SIZE)) =>
                       loc.ret = 0 /\ Reads = 2

\* C9, amended: as C9, but a tag wholly within the last B bytes is found
\* after exactly 2 reads when it starts at or after offset B; a tag that
\* straddles the end of the first block (it starts at B-3..B-1) is completed
\* by the byte-wise continuation of the first read, after exactly 1 read.
C9_VisitOrderAmended ==
    Located =>
        /\ \A k \in 1..Len(loc.starts) : loc.starts[k] = VisitStart(k - 1)
        /\ Reads <= CeilBlocks
        /\ loc.ret = 0 => MatchedByLastRead
        /\ (CeilBlocks >= 2 /\ Cardinality(Occs) = 1) =>
              \A t \in Occs : Clean(t) =>
                 /\ t + 4 <= BLOCK_SIZE => loc.ret = 0 /\ Reads = 1
                 /\ (t >= fsize - BLOCK_SIZE /\ t >= BLOCK_SIZE) =>
                       loc.ret = 0 /\ Reads = 2
                 /\ (t < BLOCK_SIZE /\ ~(t + 4 <= BLOCK_SIZE)) =>
                       loc.ret = 0 /\ Reads = 1

\* a single tag beyond the first block and within the last one, found by the
\* second read
C9_Witness ==
    /\ CeilBlocks >= 3
    /\ Cardinality(Occs) = 1
    /\ \A t \in Occs : Clean(t) /\ t >= BLOCK_SIZE /\ t >= fsize - BLOCK_SIZE
    /\ loc.ret = 0 /\ Reads = 2

\* C10: no spurious I/O error: every seek target of the block loop lies in
\* [0, fsize], every block read returns exactly min(BLOCK_SIZE, fsize) bytes,
\* and the exits 21, 22, 23 and 24 are unreachable.
C10_NoSpuriousIoError ==
    /\ \A k \in 1..Len(loc.starts) : 0 <= loc.starts[k] /\ loc.starts[k] <= fsize
    /\ \A k \in 1..Len(loc.lens) : loc.lens[k] = Min(BLOCK_SIZE, fsize)
    /\ 0 <= loc.seek /\ loc.seek <= fsize
    /\ loc.exit = 0
    /\ exit_code \notin {21, 22, 23, 24}

\* every block of a file of an odd number of blocks, its size no multiple of
\* BLOCK_SIZE, has been read without a match
C10_Witness ==
    /\ loc.ret = 1
    /\ Reads = 3
    /\ fsize % BLOCK_SIZE # 0

-----------------------------------------------------------------------------
(* The decoder and the pipeline.                                           *)

\* get_mp4_len has read (or tried to read) the header fields
Decoded == "decode" \in ran

\* the version byte after the located tag (-1 when the file ends there)
VersionByte == IF loc.pos < fsize THEN file[loc.pos + 1] ELSE 0 - 1

\* the located header holds all its fields up to the duration
HeaderComplete == loc.ret = 0 /\ loc.pos + 1 + SkipBytes(VersionByte) + 4 + LenBytes(VersionByte) <= fsize

\* the 4 bytes of the timescale field and the 4 or 8 bytes of the duration field
TsField == SubSeq(file, loc.pos + SkipBytes(VersionByte) + 2, loc.pos + SkipBytes(VersionByte) + 5)
DurField ==
    SubSeq(file, loc.pos + SkipBytes(VersionByte) + 6,
                 loc.pos + SkipBytes(VersionByte) + 5 + LenBytes(VersionByte))

\* C3: version-0 decode: with version byte 0, timescale T >= 1 and duration D,
\* unit_per_sec = T and len_unit = D (high 32 bits zero), for all byte
\* values, also when the most significant byte is >= 0x80.
C3_Version0Decode ==
    (Decoded /\ HeaderComplete /\ VersionByte = 0 /\ TsField # Zero4) =>
        /\ unit_per_sec = Zero4 \o TsField
        /\ len_unit = Zero4 \o DurField

\* C4: version-1 decode: with version byte 1 and duration bytes b0..b7,
\* len_unit is the unsigned 64-bit big-endian value of b0..b7, for every
\* combination of byte values, also when b4 >= 0x80.
C4_Version1Decode ==
    (Decoded /\ HeaderComplete /\ VersionByte = 1) => len_unit = DurField

\* C5: zero timescale is fatal: when the located header has timescale 0, the
\* program ends with a nonzero exit code and prints nothing on standard
\* output; it never reaches the success outcome.
C5_ZeroTimescaleFatal ==
    (HeaderComplete /\ TsField = Zero4) =>
        /\ pc # "print"
        /\ pc = "exit" => exit_code # 0 /\ stdout = <<>>

\* C6: fail-fast precedence: the checks run in the order size, signature,
\* locate, decode; a file shorter than 51 bytes ends with exit 3 and nothing
\* else runs; a file of 51 bytes or more without an accepted signature ends
\* with exit 4 without the locator or the decoder running; a file of 51
\* bytes or more with an accepted signature never ends with exit 3 or 4.
C6_FailFast ==
    /\ ran \in {{}, {"size"}, {"size", "magic"}, {"size", "magic", "locate"},
                {"size", "magic", "locate", "decode"}}
    /\ pc = "exit" =>
          /\ fsize < 51 =>
                exit_code = 3 /\ ran = {"size"} /\ loc = NoLoc /\ stdout = <<>>
          /\ (fsize >= 51 /\ ~AcceptedSig) =>
                exit_code = 4 /\ ran = {"size", "magic"} /\ loc = NoLoc /\ stdout = <<>>
          /\ (fsize >= 51 /\ AcceptedSig) =>
                exit_code \notin {3, 4} /\ "locate" \in ran

\* a file of 51 bytes or more that holds the tag but no accepted signature
\* has ended with exit 4
C6_Witness ==
    /\ pc = "exit" /\ exit_code = 4
    /\ fsize >= 51 /\ Occs # {}

====
